---- MODULE Spec2Model ----
(***************************************************************************)
(* support-ai: the model registry (lib/model_manager.py, ModelManager),    *)
(* the factories it constructs, the per-session conversational memory      *)
(* (lib/memory.py, Memory) and the time-bounded cache around the knowledge  *)
(* base's summaries (support_ai/lib/datasources/kb.py).                     *)
(*                                                                         *)
(* Four state machines share this module.  SpecRegistry / SpecRegistrySeq  *)
(* run ModelManager.__new__ and ModelManager.get_model; SpecFactory        *)
(* constructs one factory from one llm dict; SpecMemory runs               *)
(* Memory.integrate and Memory.clear; SpecCache runs the cached            *)
(* __get_summary.  Python threads may be preempted between any two         *)
(* statements, so every read of shared state and every write to it is a    *)
(* step of its own; code run under `with self.mutex` is one step taken     *)
(* while the mutex is held.                                                *)
(***************************************************************************)
EXTENDS Naturals, Integers, Sequences, FiniteSets, TLC

\* ------------------------------------------------------------------ bounds
MaxDescs == 2       \* descriptors in one configuration's llms list
MaxCalls == 2       \* ModelManager.get_model calls over a run
MaxFail  == 1       \* provider / collaborator failures over a run
MaxOps   == 3       \* Memory.integrate / Memory.clear calls over a run
MaxGets  == 4       \* calls of the cached __get_summary over a run
MaxTime  == 2       \* clock ticks over a run

Threads  == {"t1", "t2"}

\* ------------------------------------------------------------ Python values
None  == [kind |-> "None", name |-> "None", no |-> 0]   \* Python's None, where a handle may stand
NoKey == "NoKey"     \* the key is not in the dict
Empty == ""          \* a falsy value stored under the key

\* lib.const names used by the registry
CONFIG_HUGGINGFACE_PIPELINE == "huggingface_pipeline"
CONFIG_LLAMACPP == "llamacpp"
CONFIG_OLLAMA   == "ollama"
CONFIG_OPENAI   == "openai"

\* the items of get_model's __factories dict
Factories == {CONFIG_HUGGINGFACE_PIPELINE, CONFIG_LLAMACPP, CONFIG_OLLAMA, CONFIG_OPENAI}

\* ---------------------------------------------------------- configuration
Names == {"a", "b"}

Desc(n, ty, m, k) == [name |-> n, type |-> ty, model |-> m, api_key |-> k]

\* the llm dicts a configuration may list
Descriptors ==
    { Desc("a", CONFIG_LLAMACPP, "m", NoKey),
      Desc("b", CONFIG_OPENAI, "m", "k"),
      Desc("a", "bogus", "m", NoKey),
      Desc("a", NoKey, "m", NoKey),
      Desc("b", CONFIG_OPENAI, "m", Empty),
      Desc(NoKey, CONFIG_OLLAMA, "m", NoKey) }

RECURSIVE SeqsUpTo(_, _)
SeqsUpTo(S, n) ==
    IF n = 0 THEN { <<>> }
    ELSE LET shorter == SeqsUpTo(S, n - 1)
         IN  shorter \cup { Append(q, x) : q \in { r \in shorter : Len(r) = n - 1 }, x \in S }

\* a configuration: without the llms key, or with a list of llm dicts
Configs == { [has_llms |-> FALSE, llms |-> <<>>] }
           \cup { [has_llms |-> TRUE, llms |-> q] : q \in SeqsUpTo(Descriptors, MaxDescs) }

\* the two handles of an entry, by the key of the request that asks for each
Kinds == {"llm", "embeddings"}

\* the config dict of a get_model call: CONFIG_LLM / CONFIG_EMBEDDINGS present or not
Requests == { [llm |-> l, embeddings |-> e] : l \in Names \cup {NoKey}, e \in Names \cup {NoKey} }

\* ------------------------------------------------------------------- state
VARIABLES
    instance,                \* ModelManager.__instance is not None
    models,                  \* self.__models: name -> [llm_config, llm_inst, embeddings_inst]
    build_result,            \* outcome of ModelManager(config), until the caller's next call
    build_config,            \* that ModelManager(config): was there no instance, and what it was given
    pc,                      \* each thread's position in get_model
    req,                     \* each thread's config argument
    model,                   \* each thread's Model(llm, embeddings) under construction
    tmp,                     \* the handle a create_* call returned, not yet stored
    outcome,                 \* how each thread's last call ended
    built,                   \* the running call invoked a factory create operation
    create_llm_calls,        \* name -> invocations of create_llm
    create_embeddings_calls, \* name -> invocations of create_embeddings
    returned,                \* kind -> name -> handles get_model has returned
    nreturned,               \* kind -> name -> get_model calls that returned it
    create_raised,           \* kind -> name -> an invocation of its create operation raised
    calls,                   \* get_model calls started
    fails                    \* provider failures so far

registryVars == << instance, models, build_result, build_config, pc, req, model, tmp,
                   outcome, built, create_llm_calls, create_embeddings_calls,
                   returned, nreturned, create_raised, calls, fails >>

\* lib/memory.py
VARIABLES
    mutex,                   \* self.mutex: the thread holding it, or Free
    session_memories,        \* self.session_memories: session -> ConversationSummaryBufferMemory
    history,                 \* the persisted chat history (MongoDB), by session_id
    mpc,                     \* each thread's position in integrate / clear
    op,                      \* each thread's call: [name, session, query]
    memory,                  \* integrate's local `memory`
    integrated_context,      \* integrate's local `integrated_context`
    result,                  \* how each thread's last call ended
    ret,                     \* what each thread's last integrate returned
    before,                  \* what clear found: [stored, cached] for its session
    objs,                    \* session -> SessionMemory objects constructed so far
    ctor_calls,              \* session -> history constructions by __get_session_memory since it was last cleared
    ctor_raised,             \* session -> such a construction raised since it was last cleared
    got,                     \* session -> objects __get_session_memory returned since it was last cleared
    cleared,                 \* session -> cleared, and not looked up since
    ops,                     \* integrate / clear calls started
    invoked,                 \* each thread's chain.invoke calls within its current call
    mfails                   \* collaborator failures so far

memoryVars == << mutex, session_memories, history, mpc, op, memory, integrated_context,
                 result, ret, before, objs, ctor_calls, ctor_raised, got, cleared,
                 ops, invoked, mfails >>

\* a factory constructed on its own from one llm dict
VARIABLES
    fconfig,                 \* the llm_config handed to the constructor
    fclass,                  \* what was called with it: get_model, or a factory class of the package
    fresult                  \* "ok" when a factory object was constructed, the exception otherwise

factoryVars == << fconfig, fclass, fresult >>

\* the time-bounded cache around KnowledgeBaseSource.__get_summary
VARIABLES
    now,                     \* the clock
    ttl,                     \* the cache's time-to-live
    max_entries,             \* the cache's size bound
    entries,                 \* the backing map: a set of [key, value, created_at, used]
    cpc,                     \* each thread's position in get_or_compute
    ckey,                    \* each thread's key
    cval,                    \* the value the thread's compute returned
    cret,                    \* what each thread's last get_or_compute returned
    computes,                \* invocations of compute so far
    uses,                    \* reads and writes of entries so far: the recency clock
    gets                     \* get_or_compute calls started

cacheVars == << now, ttl, max_entries, entries, cpc, ckey, cval, cret, computes, uses, gets >>

vars == << registryVars, memoryVars, factoryVars, cacheVars >>

\* what the ModelManager steps leave alone, and what the Memory steps leave alone
outsideRegistry == << memoryVars, factoryVars, cacheVars >>
outsideMemory   == << registryVars, factoryVars, cacheVars >>
outsideCache    == << registryVars, memoryVars, factoryVars >>

\* ------------------------------------------------- lib/model_manager.py
\* HuggingFaceFactory / LlamaCppFactory / OllamaFactory.__init__:
\* llm_config[CONFIG_MODEL] raises KeyError without the key, and a falsy
\* model raises ValueError.
ModelOnlyFactory(llm_config) ==
    IF llm_config.model = NoKey THEN "KeyError"
    ELSE IF llm_config.model = Empty THEN "ValueError"
    ELSE "ok"

\* OpenAIFactory.__init__: both keys are read, only api_key is tested.
OpenAIFactory(llm_config) ==
    IF llm_config.model = NoKey THEN "KeyError"
    ELSE IF llm_config.api_key = NoKey THEN "KeyError"
    ELSE IF llm_config.api_key = Empty THEN "ValueError"
    ELSE "ok"

\* get_model(llm_config), the module's function: "ok" when a factory is
\* constructed, the exception otherwise.
get_model(llm_config) ==
    IF llm_config.type = NoKey THEN "ValueError"
    ELSE IF llm_config.type \notin Factories THEN "ValueError"
    ELSE IF llm_config.type = CONFIG_OPENAI THEN OpenAIFactory(llm_config)
    ELSE ModelOnlyFactory(llm_config)

\* support_ai/lib/model_manager/openai_factory.py, OpenAIFactory.__init__:
\* the model is read and tested, then the api key is read and tested.
PackageOpenAIFactory(llm_config) ==
    IF llm_config.model = NoKey THEN "KeyError"
    ELSE IF llm_config.model = Empty THEN "ValueError"
    ELSE IF llm_config.api_key = NoKey THEN "KeyError"
    ELSE IF llm_config.api_key = Empty THEN "ValueError"
    ELSE "ok"

\* support_ai/lib/model_manager/llamacpp_factory.py, LlamaCppFactory.__init__
PackageLlamaCppFactory(llm_config) ==
    IF llm_config.model = NoKey THEN "KeyError"
    ELSE IF llm_config.model = Empty THEN "ValueError"
    ELSE "ok"

\* the llm dicts a factory may be handed: each key absent, falsy or set
LlmConfigs ==
    { Desc("a", ty, m, k) : ty \in Factories \cup {"bogus", NoKey},
                            m \in {NoKey, Empty, "m"},
                            k \in {NoKey, Empty, "k"} }

\* no factory has been constructed from fconfig yet
FactoryStart(llm_config) ==
    /\ fconfig = llm_config
    /\ fclass = "none"
    /\ fresult = "none"

\* lib/model_manager.py: get_model(fconfig) picks the class by CONFIG_TYPE
\* and constructs it
ConstructByType ==
    /\ fresult = "none"
    /\ fclass' = "get_model"
    /\ fresult' = get_model(fconfig)
    /\ UNCHANGED << fconfig, registryVars, memoryVars, cacheVars >>

\* OpenAIFactory(fconfig) of the support_ai package
ConstructPackageOpenAI ==
    /\ fresult = "none"
    /\ fconfig.type = CONFIG_OPENAI
    /\ fclass' = "support_ai.OpenAIFactory"
    /\ fresult' = PackageOpenAIFactory(fconfig)
    /\ UNCHANGED << fconfig, registryVars, memoryVars, cacheVars >>

\* LlamaCppFactory(fconfig) of the support_ai package
ConstructPackageLlamaCpp ==
    /\ fresult = "none"
    /\ fconfig.type = CONFIG_LLAMACPP
    /\ fclass' = "support_ai.LlamaCppFactory"
    /\ fresult' = PackageLlamaCppFactory(fconfig)
    /\ UNCHANGED << fconfig, registryVars, memoryVars, cacheVars >>

NextFactory ==
    \/ ConstructByType
    \/ ConstructPackageOpenAI
    \/ ConstructPackageLlamaCpp

\* an entry whose language-model handle is built when it is registered
EntryPrebuilt(llm) ==
    [llm_config |-> llm,
     llm_inst |-> [kind |-> "llm", name |-> llm.name, no |-> 1],
     embeddings_inst |-> None]

\* the entry __new__ stores for one llm dict
Entry(llm) == [llm_config |-> llm, llm_inst |-> None, embeddings_inst |-> None]

\* a loop without the duplicate test: a later llm dict overwrites an earlier one
RECURSIVE RegisterFromNoDupTest(_, _, _)
RegisterFromNoDupTest(ms, llms, i) ==
    IF i > Len(llms) THEN [error |-> "ok", models |-> ms]
    ELSE IF llms[i].name = NoKey THEN [error |-> "ValueError", models |-> ms]
    ELSE RegisterFromNoDupTest(
             [n \in DOMAIN ms \cup {llms[i].name} |->
                 IF n = llms[i].name THEN Entry(llms[i]) ELSE ms[n]], llms, i + 1)

\* the loop of __new__ from its i-th llm dict on: the filled dict, or the
\* exception of the first dict without a name or with a name already stored
RECURSIVE RegisterFrom(_, _, _)
RegisterFrom(ms, llms, i) ==
    IF i > Len(llms) THEN [error |-> "ok", models |-> ms]
    ELSE IF llms[i].name = NoKey THEN [error |-> "ValueError", models |-> ms]
    ELSE IF llms[i].name \in DOMAIN ms THEN [error |-> "ValueError", models |-> ms]
    ELSE RegisterFrom(ms @@ (llms[i].name :> Entry(llms[i])), llms, i + 1)

\* self.__models = {}
EmptyModels == [n \in {} |-> Entry(Desc(n, NoKey, NoKey, NoKey))]

\* the body of `if cls.__instance is None` in __new__
NewInstance(config) ==
    IF ~config.has_llms THEN [error |-> "ValueError", models |-> EmptyModels]
    ELSE RegisterFrom(EmptyModels, config.llms, 1)

\* what the caller passed, kept to state what a build owes its configuration
NamedDescs(config) == { i \in 1..Len(config.llms) : config.llms[i].name # NoKey }
ConfigDigest(config) ==
    IF ~config.has_llms
    THEN [absent |-> TRUE, lacks |-> FALSE, dup |-> FALSE, names |-> {}]
    ELSE [absent |-> FALSE,
          lacks  |-> \E i \in 1..Len(config.llms) : config.llms[i].name = NoKey,
          dup    |-> \E i, j \in NamedDescs(config) :
                        i # j /\ config.llms[i].name = config.llms[j].name,
          names  |-> { config.llms[i].name : i \in NamedDescs(config) }]

NoDigest == [absent |-> FALSE, lacks |-> FALSE, dup |-> FALSE, names |-> {}]

\* a __new__ that builds a new registry on every call
BuildAlwaysFresh(config) ==
    /\ UNCHANGED outsideRegistry
    /\ build_config' = [fresh |-> ~instance, digest |-> ConfigDigest(config)]
    /\ LET new == NewInstance(config)
       IN  /\ build_result' = new.error
           /\ instance' = (new.error = "ok")
           /\ models' = IF new.error = "ok" THEN new.models ELSE EmptyModels
    /\ UNCHANGED << pc, req, model, tmp, outcome, built, create_llm_calls,
                    create_embeddings_calls, returned, nreturned, create_raised,
                    calls, fails >>

\* ModelManager(config): __new__ as a whole
Build(config) ==
    /\ UNCHANGED outsideRegistry
    /\ build_config' = [fresh |-> ~instance, digest |-> ConfigDigest(config)]
    /\ IF instance
       THEN /\ build_result' = "ok"
            /\ UNCHANGED << instance, models >>
       ELSE LET new == NewInstance(config)
            IN  /\ build_result' = new.error
                /\ instance' = (new.error = "ok")
                /\ models' = IF new.error = "ok" THEN new.models ELSE models
    /\ UNCHANGED << pc, req, model, tmp, outcome, built, create_llm_calls,
                    create_embeddings_calls, returned, nreturned, create_raised,
                    calls, fails >>

\* ---- ModelManager.get_model(self, config), one thread's call
Finished(t) == pc[t] \in {"idle", "done"}

\* a get_model that never finds a cached handle
IsNoneAlways(inst) == TRUE

\* a get_model that takes an unset handle for a cached one
IsNoneNever(inst) == FALSE

\* the test of lines 134 and 143: `... is None`
IsNone(inst) == inst = None

\* the call raises: nothing is returned
Raise(t, e) ==
    /\ pc' = [pc EXCEPT ![t] = "done"]
    /\ outcome' = [outcome EXCEPT ![t] = e]
    /\ model' = [model EXCEPT ![t] = [llm |-> None, embeddings |-> None]]

\* line 129: model = Model(None, None)
Call(t, r) ==
    /\ UNCHANGED outsideRegistry
    /\ instance
    /\ Finished(t)
    /\ calls < MaxCalls
    /\ calls' = calls + 1
    /\ pc' = [pc EXCEPT ![t] = "llm"]
    /\ req' = [req EXCEPT ![t] = r]
    /\ model' = [model EXCEPT ![t] = [llm |-> None, embeddings |-> None]]
    /\ tmp' = [tmp EXCEPT ![t] = None]
    /\ outcome' = [outcome EXCEPT ![t] = "running"]
    /\ built' = [built EXCEPT ![t] = FALSE]
    /\ build_result' = "none"
    /\ build_config' = [fresh |-> FALSE, digest |-> NoDigest]
    /\ UNCHANGED << instance, models, create_llm_calls,
                    create_embeddings_calls, returned, nreturned, create_raised, fails >>

\* lines 130-134: the membership tests and the `is None` test
LlmLookup(t) ==
    /\ UNCHANGED outsideRegistry
    /\ pc[t] = "llm"
    /\ IF req[t].llm = NoKey
       THEN /\ pc' = [pc EXCEPT ![t] = "emb"]
            /\ UNCHANGED << outcome, model, create_raised >>
       ELSE IF req[t].llm \notin DOMAIN models
       THEN /\ Raise(t, "ValueError")
            /\ UNCHANGED create_raised
       ELSE /\ pc' = [pc EXCEPT ![t] =
                        IF IsNone(models[req[t].llm].llm_inst) THEN "llm_create" ELSE "llm_read"]
            /\ UNCHANGED << outcome, model, create_raised >>
    /\ UNCHANGED << instance, models, build_result, build_config, req, tmp, built,
                    create_llm_calls, create_embeddings_calls, returned, nreturned,
                    calls, fails >>

\* a handle: the value one invocation of a create operation returned
Handle(kind, name, k) == [kind |-> kind, name |-> name, no |-> k]

\* lines 135-136, right-hand side: get_model(llm_config).create_llm()
LlmCreate(t) ==
    /\ UNCHANGED outsideRegistry
    /\ pc[t] = "llm_create"
    /\ LET n == req[t].llm
           f == get_model(models[n].llm_config)
       IN  IF f # "ok"
           THEN /\ Raise(t, f)
                /\ UNCHANGED << tmp, built, create_llm_calls, create_raised, fails >>
           ELSE /\ create_llm_calls' = [create_llm_calls EXCEPT ![n] = @ + 1]
                /\ built' = [built EXCEPT ![t] = TRUE]
                /\ \/ /\ tmp' = [tmp EXCEPT ![t] = Handle("llm", n, create_llm_calls[n] + 1)]
                      /\ pc' = [pc EXCEPT ![t] = "llm_store"]
                      /\ UNCHANGED << outcome, model, create_raised, fails >>
                   \/ /\ fails < MaxFail
                      /\ fails' = fails + 1
                      /\ Raise(t, "ProviderError")
                      /\ create_raised' = [create_raised EXCEPT !["llm"][n] = TRUE]
                      /\ UNCHANGED tmp
    /\ UNCHANGED << instance, models, build_result, build_config, req,
                    create_embeddings_calls, returned, nreturned, calls >>

\* line 136, the assignment to self.__models[llm_name][LLM_INST]
LlmStore(t) ==
    /\ UNCHANGED outsideRegistry
    /\ pc[t] = "llm_store"
    /\ models' = [models EXCEPT ![req[t].llm].llm_inst = tmp[t]]
    /\ pc' = [pc EXCEPT ![t] = "llm_read"]
    /\ UNCHANGED << instance, build_result, build_config, req, model, tmp, outcome, built,
                    create_llm_calls, create_embeddings_calls, returned, nreturned,
                    create_raised, calls, fails >>

\* a read that fills both fields of the bundle from the entry named for the llm
LlmReadFillsBoth(t) ==
    /\ UNCHANGED outsideRegistry
    /\ pc[t] = "llm_read"
    /\ model' = [model EXCEPT ![t] = [llm |-> models[req[t].llm].llm_inst,
                                       embeddings |-> models[req[t].llm].llm_inst]]
    /\ pc' = [pc EXCEPT ![t] = "emb"]
    /\ UNCHANGED << instance, models, build_result, build_config, req, tmp, outcome, built,
                    create_llm_calls, create_embeddings_calls, returned, nreturned,
                    create_raised, calls, fails >>

\* line 137: model.llm = self.__models[llm_name][LLM_INST]
LlmRead(t) ==
    /\ UNCHANGED outsideRegistry
    /\ pc[t] = "llm_read"
    /\ model' = [model EXCEPT ![t].llm = models[req[t].llm].llm_inst]
    /\ pc' = [pc EXCEPT ![t] = "emb"]
    /\ UNCHANGED << instance, models, build_result, build_config, req, tmp, outcome, built,
                    create_llm_calls, create_embeddings_calls, returned, nreturned,
                    create_raised, calls, fails >>

\* line 147: return model
Return(t, m) ==
    /\ pc' = [pc EXCEPT ![t] = "done"]
    /\ outcome' = [outcome EXCEPT ![t] = "ok"]
    /\ model' = [model EXCEPT ![t] = m]
    /\ returned' = [k \in Kinds |-> [n \in Names |->
                      IF req[t][k] = n THEN returned[k][n] \cup {m[k]} ELSE returned[k][n]]]
    /\ nreturned' = [k \in Kinds |-> [n \in Names |->
                      IF req[t][k] = n THEN nreturned[k][n] + 1 ELSE nreturned[k][n]]]
    /\ UNCHANGED create_raised

\* lines 139-143: the membership tests and the `is None` test
EmbLookup(t) ==
    /\ UNCHANGED outsideRegistry
    /\ pc[t] = "emb"
    /\ IF req[t].embeddings = NoKey
       THEN Return(t, model[t])
       ELSE IF req[t].embeddings \notin DOMAIN models
       THEN /\ Raise(t, "ValueError")
            /\ UNCHANGED << returned, nreturned, create_raised >>
       ELSE /\ pc' = [pc EXCEPT ![t] =
                        IF IsNone(models[req[t].embeddings].embeddings_inst)
                        THEN "emb_create" ELSE "emb_read"]
            /\ UNCHANGED << outcome, model, create_raised, returned, nreturned >>
    /\ UNCHANGED << instance, models, build_result, build_config, req, tmp, built,
                    create_llm_calls, create_embeddings_calls, calls, fails >>

\* lines 144-145, right-hand side: get_model(embeddings_config).create_embeddings()
EmbCreate(t) ==
    /\ UNCHANGED outsideRegistry
    /\ pc[t] = "emb_create"
    /\ LET n == req[t].embeddings
           f == get_model(models[n].llm_config)
       IN  IF f # "ok"
           THEN /\ Raise(t, f)
                /\ UNCHANGED << tmp, built, create_embeddings_calls, create_raised, fails >>
           ELSE /\ create_embeddings_calls' = [create_embeddings_calls EXCEPT ![n] = @ + 1]
                /\ built' = [built EXCEPT ![t] = TRUE]
                /\ \/ /\ tmp' = [tmp EXCEPT ![t] =
                                   Handle("embeddings", n, create_embeddings_calls[n] + 1)]
                      /\ pc' = [pc EXCEPT ![t] = "emb_store"]
                      /\ UNCHANGED << outcome, model, create_raised, fails >>
                   \/ /\ fails < MaxFail
                      /\ fails' = fails + 1
                      /\ Raise(t, "ProviderError")
                      /\ create_raised' = [create_raised EXCEPT !["embeddings"][n] = TRUE]
                      /\ UNCHANGED tmp
    /\ UNCHANGED << instance, models, build_result, build_config, req,
                    create_llm_calls, returned, nreturned, calls >>

\* line 145, the assignment to self.__models[embeddings_name][EMBEDDINGS_INST]
EmbStore(t) ==
    /\ UNCHANGED outsideRegistry
    /\ pc[t] = "emb_store"
    /\ models' = [models EXCEPT ![req[t].embeddings].embeddings_inst = tmp[t]]
    /\ pc' = [pc EXCEPT ![t] = "emb_read"]
    /\ UNCHANGED << instance, build_result, build_config, req, model, tmp, outcome, built,
                    create_llm_calls, create_embeddings_calls, returned, nreturned,
                    create_raised, calls, fails >>

\* lines 146-147: model.embeddings = ...; return model
EmbRead(t) ==
    /\ UNCHANGED outsideRegistry
    /\ pc[t] = "emb_read"
    /\ Return(t, [model[t] EXCEPT !.embeddings = models[req[t].embeddings].embeddings_inst])
    /\ UNCHANGED << instance, models, build_result, build_config, req, tmp, built,
                    create_llm_calls, create_embeddings_calls, calls, fails >>

\* ---------------------------------------------------------- lib/memory.py
Sessions  == {"s1", "s2"}
Queries   == {"q1"}
Responses == {"r1", "r2"}     \* what the language model may answer

Free == "free"                                  \* nobody holds self.mutex
NoMemory == [session |-> "None", no |-> 0]      \* `memory` before it is assigned
NoOp == [name |-> "none", session |-> "None", query |-> "None"]

\* a turn of the persisted history: save_context({'input': ...}, {'output': ...})
Turn(query, output) == [input |-> query, output |-> output]

\* what the store may hold for a session when the process starts
StoredAtStart == { <<>>, << Turn("q0", "r0") >> }

\* the ConversationSummaryBufferMemory made for a session: bound to the
\* session's persisted history, the k-th object made for it
SessionMemory(session, k) == [session |-> session, no |-> k]

EmptyMemories == [x \in {} |-> NoMemory]

\* a lookup that never finds the session cached
CachedNever(session) == FALSE

\* line 20: `session not in self.session_memories`, negated
Cached(session) == session \in DOMAIN session_memories

\* lines 25-28: self.session_memories[session] = ...
Insert(sm, session, m) == [x \in DOMAIN sm \cup {session} |-> IF x = session THEN m ELSE sm[x]]

\* a clear that empties the whole dict
DeleteAll(sm, session) == [error |-> "ok", memories |-> EmptyMemories]

\* a clear that deletes without testing membership
DeleteUnguarded(sm, session) ==
    IF session \in DOMAIN sm
    THEN [error |-> "ok", memories |-> [x \in DOMAIN sm \ {session} |-> sm[x]]]
    ELSE [error |-> "KeyError", memories |-> sm]

\* lines 57-58: `if session in self.session_memories: del ...`
Delete(sm, session) ==
    IF session \in DOMAIN sm
    THEN [error |-> "ok", memories |-> [x \in DOMAIN sm \ {session} |-> sm[x]]]
    ELSE [error |-> "ok", memories |-> sm]

\* a save that stores the answer in place of the query
SaveContextDropsQuery(h, query, output) == Append(h, Turn(output, output))

\* line 47: memory.save_context({'input': query}, {'output': integrated_context})
SaveContext(h, query, output) == Append(h, Turn(query, output))

\* a `with` block that keeps the mutex when it is left
WithExitKeeps(t) == t

\* leaving `with self.mutex`, by return or by exception: the mutex is released
WithExit(t) == Free

Between(t) == mpc[t] \in {"idle", "done"}

\* integrate(session, query, context): the call starts.  context only feeds
\* the prompt of line 36; nothing of the state depends on it.
Integrate(t, session, query) ==
    /\ UNCHANGED outsideMemory
    /\ Between(t)
    /\ ops < MaxOps
    /\ ops' = ops + 1
    /\ op' = [op EXCEPT ![t] = [name |-> "integrate", session |-> session, query |-> query]]
    /\ invoked' = [invoked EXCEPT ![t] = 0]
    /\ mpc' = [mpc EXCEPT ![t] = "gsm_wait"]
    /\ memory' = [memory EXCEPT ![t] = NoMemory]
    /\ integrated_context' = [integrated_context EXCEPT ![t] = "None"]
    /\ result' = [result EXCEPT ![t] = "running"]
    /\ ret' = [ret EXCEPT ![t] = "None"]
    /\ before' = [before EXCEPT ![t] = [stored |-> FALSE, cached |-> FALSE]]
    /\ UNCHANGED << mutex, session_memories, history, objs, ctor_calls, ctor_raised,
                    got, cleared, mfails >>

\* a `with self.mutex` that is entered without waiting for the mutex
GsmAcquireBarges(t) ==
    /\ UNCHANGED outsideMemory
    /\ mpc[t] = "gsm_wait"
    /\ mutex' = t
    /\ mpc' = [mpc EXCEPT ![t] = "gsm_cs"]
    /\ UNCHANGED << session_memories, history, op, memory, integrated_context, result, ret,
                    before, objs, ctor_calls, ctor_raised, got, cleared, ops, invoked, mfails >>

\* line 19: `with self.mutex` is entered
GsmAcquire(t) ==
    /\ UNCHANGED outsideMemory
    /\ mpc[t] = "gsm_wait"
    /\ mutex = Free
    /\ mutex' = t
    /\ mpc' = [mpc EXCEPT ![t] = "gsm_cs"]
    /\ UNCHANGED << session_memories, history, op, memory, integrated_context, result, ret,
                    before, objs, ctor_calls, ctor_raised, got, cleared, ops, invoked, mfails >>

\* lines 20-29, then the `with` block is left
GsmBody(t) ==
    /\ UNCHANGED outsideMemory
    /\ mpc[t] = "gsm_cs"
    /\ mutex' = WithExit(t)
    /\ LET session == op[t].session
           made == SessionMemory(session, objs[session] + 1)
           returns(m) ==
               /\ memory' = [memory EXCEPT ![t] = m]
               /\ got' = [got EXCEPT ![session] = @ \cup {m}]
               /\ cleared' = [cleared EXCEPT ![session] = FALSE]
               /\ mpc' = [mpc EXCEPT ![t] = "invoke"]
               /\ UNCHANGED << result, mfails >>
       IN  IF Cached(session)
           THEN /\ returns(session_memories[session])
                /\ UNCHANGED << session_memories, objs, ctor_calls, ctor_raised >>
           ELSE /\ ctor_calls' = [ctor_calls EXCEPT ![session] = @ + 1]
                /\ \/ /\ session_memories' = Insert(session_memories, session, made)
                      /\ objs' = [objs EXCEPT ![session] = @ + 1]
                      /\ returns(made)
                      /\ UNCHANGED ctor_raised
                   \/ /\ mfails < MaxFail
                      /\ mfails' = mfails + 1
                      /\ ctor_raised' = [ctor_raised EXCEPT ![session] = TRUE]
                      /\ result' = [result EXCEPT ![t] = "ProviderError"]
                      /\ mpc' = [mpc EXCEPT ![t] = "done"]
                      /\ UNCHANGED << session_memories, objs, memory, got, cleared >>
    /\ UNCHANGED << history, op, integrated_context, ret, before, ops, invoked >>

\* an integrate that invokes the language model again when the invocation fails
InvokeRetries(t) ==
    /\ UNCHANGED outsideMemory
    /\ mpc[t] = "invoke"
    /\ invoked' = [invoked EXCEPT ![t] = @ + 1]
    /\ \/ \E r \in Responses :
            /\ integrated_context' = [integrated_context EXCEPT ![t] = r]
            /\ mpc' = [mpc EXCEPT ![t] = "save"]
            /\ UNCHANGED mfails
       \/ /\ mfails < MaxFail
          /\ mfails' = mfails + 1
          /\ UNCHANGED << integrated_context, mpc >>
    /\ UNCHANGED << mutex, session_memories, history, op, memory, ret, before, objs,
                    ctor_calls, ctor_raised, got, cleared, ops, result >>

\* lines 33-46: the history is loaded and the language model invoked
Invoke(t) ==
    /\ UNCHANGED outsideMemory
    /\ mpc[t] = "invoke"
    /\ invoked' = [invoked EXCEPT ![t] = @ + 1]
    /\ \/ \E r \in Responses :
            /\ integrated_context' = [integrated_context EXCEPT ![t] = r]
            /\ mpc' = [mpc EXCEPT ![t] = "save"]
            /\ UNCHANGED << result, mfails >>
       \/ /\ mfails < MaxFail
          /\ mfails' = mfails + 1
          /\ result' = [result EXCEPT ![t] = "ProviderError"]
          /\ mpc' = [mpc EXCEPT ![t] = "done"]
          /\ UNCHANGED integrated_context
    /\ UNCHANGED << mutex, session_memories, history, op, memory, ret, before, objs,
                    ctor_calls, ctor_raised, got, cleared, ops >>

\* lines 47-48: the turn is appended to the object's history; return
Save(t) ==
    /\ UNCHANGED outsideMemory
    /\ mpc[t] = "save"
    /\ history' = [history EXCEPT ![memory[t].session] =
                      SaveContext(@, op[t].query, integrated_context[t])]
    /\ ret' = [ret EXCEPT ![t] = integrated_context[t]]
    /\ result' = [result EXCEPT ![t] = "ok"]
    /\ mpc' = [mpc EXCEPT ![t] = "done"]
    /\ UNCHANGED << mutex, session_memories, op, memory, integrated_context, before, objs,
                    ctor_calls, ctor_raised, got, cleared, ops, invoked, mfails >>

\* clear(session): the call starts
Clear(t, session) ==
    /\ UNCHANGED outsideMemory
    /\ Between(t)
    /\ ops < MaxOps
    /\ ops' = ops + 1
    /\ op' = [op EXCEPT ![t] = [name |-> "clear", session |-> session, query |-> "None"]]
    /\ invoked' = [invoked EXCEPT ![t] = 0]
    /\ mpc' = [mpc EXCEPT ![t] = "clear_wait"]
    /\ memory' = [memory EXCEPT ![t] = NoMemory]
    /\ integrated_context' = [integrated_context EXCEPT ![t] = "None"]
    /\ result' = [result EXCEPT ![t] = "running"]
    /\ ret' = [ret EXCEPT ![t] = "None"]
    /\ before' = [before EXCEPT ![t] = [stored |-> FALSE, cached |-> FALSE]]
    /\ UNCHANGED << mutex, session_memories, history, objs, ctor_calls, ctor_raised,
                    got, cleared, mfails >>

\* line 51: `with self.mutex` is entered
ClearAcquire(t) ==
    /\ UNCHANGED outsideMemory
    /\ mpc[t] = "clear_wait"
    /\ mutex = Free
    /\ mutex' = t
    /\ mpc' = [mpc EXCEPT ![t] = "clear_cs"]
    /\ UNCHANGED << session_memories, history, op, memory, integrated_context, result, ret,
                    before, objs, ctor_calls, ctor_raised, got, cleared, ops, invoked, mfails >>

\* lines 52-58, then the `with` block is left
ClearBody(t) ==
    /\ UNCHANGED outsideMemory
    /\ mpc[t] = "clear_cs"
    /\ mutex' = WithExit(t)
    /\ mpc' = [mpc EXCEPT ![t] = "done"]
    /\ LET session == op[t].session
           del == Delete(session_memories, session)
       IN  /\ before' = [before EXCEPT ![t] = [stored |-> history[session] # <<>>,
                                                cached |-> session \in DOMAIN session_memories]]
           /\ \/ /\ history' = [history EXCEPT ![session] = <<>>]
                 /\ session_memories' = del.memories
                 /\ result' = [result EXCEPT ![t] = del.error]
                 /\ cleared' = [cleared EXCEPT ![session] = del.error = "ok"]
                 /\ ctor_calls' = [ctor_calls EXCEPT ![session] = 0]
                 /\ ctor_raised' = [ctor_raised EXCEPT ![session] = FALSE]
                 /\ got' = [got EXCEPT ![session] = {}]
                 /\ UNCHANGED mfails
              \/ /\ mfails < MaxFail
                 /\ mfails' = mfails + 1
                 /\ result' = [result EXCEPT ![t] = "ProviderError"]
                 /\ UNCHANGED << history, session_memories, cleared, ctor_calls,
                                 ctor_raised, got >>
    /\ UNCHANGED << op, memory, integrated_context, ret, objs, ops, invoked >>

\* Memory.__init__, with what the store holds
MemoryStart(stored) ==
    /\ mutex = Free
    /\ session_memories = EmptyMemories
    /\ history = stored
    /\ mpc = [t \in Threads |-> "idle"]
    /\ op = [t \in Threads |-> NoOp]
    /\ memory = [t \in Threads |-> NoMemory]
    /\ integrated_context = [t \in Threads |-> "None"]
    /\ result = [t \in Threads |-> "none"]
    /\ ret = [t \in Threads |-> "None"]
    /\ before = [t \in Threads |-> [stored |-> FALSE, cached |-> FALSE]]
    /\ objs = [x \in Sessions |-> 0]
    /\ ctor_calls = [x \in Sessions |-> 0]
    /\ ctor_raised = [x \in Sessions |-> FALSE]
    /\ got = [x \in Sessions |-> {}]
    /\ cleared = [x \in Sessions |-> FALSE]
    /\ ops = 0
    /\ invoked = [t \in Threads |-> 0]
    /\ mfails = 0

MemoryStep(t) ==
    \/ \E session \in Sessions, query \in Queries : Integrate(t, session, query)
    \/ GsmAcquire(t)
    \/ GsmBody(t)
    \/ Invoke(t)
    \/ Save(t)
    \/ \E session \in Sessions : Clear(t, session)
    \/ ClearAcquire(t)
    \/ ClearBody(t)

\* threads call integrate and clear concurrently
NextMemory == \E t \in Threads : MemoryStep(t)

\* --------------------------------- support_ai/lib/datasources/kb.py
\* @timed_lru_cache() around __get_summary(self, solution): get_or_compute
\* with the solution text as key and the body of __get_summary as compute.
Keys == {"k1", "k2", "k3"}
NoValue == 0

CacheEntry(key, value, created_at, used) ==
    [key |-> key, value |-> value, created_at |-> created_at, used |-> used]

\* the entries stored under a key
Stored(key) == { e \in entries : e.key = key }

\* an entry one time unit too old still counts as live
LiveAtTtl(e) == now - e.created_at <= ttl

\* a live entry: now - created_at < ttl
Live(e) == now - e.created_at < ttl

\* the most recently used entry of a set is the one evicted
MostRecentlyUsed(S) == CHOOSE e \in S : \A f \in S : f.used <= e.used

\* the least recently used entry of a set
LeastRecentlyUsed(S) == CHOOSE e \in S : \A f \in S : e.used <= f.used

\* the entry replaces whatever its key held
Put(S, e) == { f \in S : f.key # e.key } \cup {e}

\* the map after an insertion: beyond max_entries the least recently used goes
Evict(S) == IF Cardinality(S) > max_entries THEN S \ {LeastRecentlyUsed(S)} ELSE S

\* the parameters a caller may give the cache
CacheParams == { [ttl |-> 1, max_entries |-> 1], [ttl |-> 2, max_entries |-> 2] }

\* a cache with its parameters, empty, at time 0
CacheStart(t, m) ==
    /\ now = 0
    /\ ttl = t
    /\ max_entries = m
    /\ entries = {}
    /\ cpc = [th \in Threads |-> "idle"]
    /\ ckey = [th \in Threads |-> "None"]
    /\ cval = [th \in Threads |-> NoValue]
    /\ cret = [th \in Threads |-> NoValue]
    /\ computes = 0
    /\ uses = 0
    /\ gets = 0

\* time passes
Tick ==
    /\ UNCHANGED outsideCache
    /\ now < MaxTime
    /\ now' = now + 1
    /\ UNCHANGED << ttl, max_entries, entries, cpc, ckey, cval, cret, computes, uses, gets >>

\* get_content calls self.__get_summary(solution)
GetSummary(t, key) ==
    /\ UNCHANGED outsideCache
    /\ cpc[t] \in {"idle", "done"}
    /\ gets < MaxGets
    /\ gets' = gets + 1
    /\ cpc' = [cpc EXCEPT ![t] = "lookup"]
    /\ ckey' = [ckey EXCEPT ![t] = key]
    /\ cval' = [cval EXCEPT ![t] = NoValue]
    /\ cret' = [cret EXCEPT ![t] = NoValue]
    /\ UNCHANGED << now, ttl, max_entries, entries, computes, uses >>

\* the cache is asked: a live entry is returned and becomes the most recently
\* used, anything else is a miss
CacheLookup(t) ==
    /\ UNCHANGED outsideCache
    /\ cpc[t] = "lookup"
    /\ IF \E e \in Stored(ckey[t]) : Live(e)
       THEN LET e == CHOOSE f \in Stored(ckey[t]) : Live(f)
            IN  /\ cret' = [cret EXCEPT ![t] = e.value]
                /\ uses' = uses + 1
                /\ entries' = (entries \ {e}) \cup {[e EXCEPT !.used = uses + 1]}
                /\ cpc' = [cpc EXCEPT ![t] = "done"]
       ELSE /\ cpc' = [cpc EXCEPT ![t] = "compute"]
            /\ UNCHANGED << cret, uses, entries >>
    /\ UNCHANGED << now, ttl, max_entries, ckey, cval, computes, gets >>

\* the body of __get_summary runs: chain.invoke(solution) gives a new summary
Compute(t) ==
    /\ UNCHANGED outsideCache
    /\ cpc[t] = "compute"
    /\ computes' = computes + 1
    /\ cval' = [cval EXCEPT ![t] = computes + 1]
    /\ cpc' = [cpc EXCEPT ![t] = "store"]
    /\ UNCHANGED << now, ttl, max_entries, entries, ckey, cret, uses, gets >>

\* the result is stored with the current timestamp, the map is trimmed and
\* the fresh value returned
CacheStore(t) ==
    /\ UNCHANGED outsideCache
    /\ cpc[t] = "store"
    /\ uses' = uses + 1
    /\ entries' = Evict(Put(entries, CacheEntry(ckey[t], cval[t], now, uses + 1)))
    /\ cret' = [cret EXCEPT ![t] = cval[t]]
    /\ cpc' = [cpc EXCEPT ![t] = "done"]
    /\ UNCHANGED << now, ttl, max_entries, ckey, cval, computes, gets >>

CacheStep(t) ==
    \/ \E key \in Keys : GetSummary(t, key)
    \/ CacheLookup(t)
    \/ Compute(t)
    \/ CacheStore(t)

NextCache ==
    \/ Tick
    \/ \E t \in Threads : CacheStep(t)

\* no thread has called get_model yet
InitThreads ==
    /\ pc = [t \in Threads |-> "idle"]
    /\ req = [t \in Threads |-> [llm |-> NoKey, embeddings |-> NoKey]]
    /\ model = [t \in Threads |-> [llm |-> None, embeddings |-> None]]
    /\ tmp = [t \in Threads |-> None]
    /\ outcome = [t \in Threads |-> "none"]
    /\ built = [t \in Threads |-> FALSE]
    /\ create_llm_calls = [n \in Names |-> 0]
    /\ create_embeddings_calls = [n \in Names |-> 0]
    /\ returned = [k \in Kinds |-> [n \in Names |-> {}]]
    /\ nreturned = [k \in Kinds |-> [n \in Names |-> 0]]
    /\ create_raised = [k \in Kinds |-> [n \in Names |-> FALSE]]
    /\ calls = 0
    /\ fails = 0
    /\ FactoryStart(Desc("a", CONFIG_LLAMACPP, "m", NoKey))
    /\ CacheStart(1, 1)

\* the process before any ModelManager(config): __instance = None
InitRegistry ==
    /\ instance = FALSE
    /\ models = EmptyModels
    /\ build_result = "none"
    /\ build_config = [fresh |-> FALSE, digest |-> NoDigest]
    /\ InitThreads
    /\ MemoryStart([x \in Sessions |-> <<>>])

\* a Memory over a store that may hold earlier conversations
InitMemory ==
    /\ instance = FALSE
    /\ models = EmptyModels
    /\ build_result = "none"
    /\ build_config = [fresh |-> FALSE, digest |-> NoDigest]
    /\ InitThreads
    /\ \E stored \in [Sessions -> StoredAtStart] : MemoryStart(stored)

\* the process after its first successful ModelManager(config)
InitBuilt ==
    /\ \E config \in Configs :
          /\ NewInstance(config).error = "ok"
          /\ models = NewInstance(config).models
          /\ build_config = [fresh |-> TRUE, digest |-> ConfigDigest(config)]
    /\ instance = TRUE
    /\ build_result = "ok"
    /\ InitThreads
    /\ MemoryStart([x \in Sessions |-> <<>>])

GetModelStep(t) ==
    \/ \E r \in Requests : Call(t, r)
    \/ LlmLookup(t)
    \/ LlmCreate(t)
    \/ LlmStore(t)
    \/ LlmRead(t)
    \/ EmbLookup(t)
    \/ EmbCreate(t)
    \/ EmbStore(t)
    \/ EmbRead(t)

\* threads call get_model concurrently, with no lock around it
NextRegistry == \E t \in Threads : GetModelStep(t)

\* Once an instance exists __new__ does not read config, and Build(config)
\* keeps of it only ConfigDigest(config): one configuration for each digest
\* then gives every successor that all of Configs give.
ConfigDigests == { ConfigDigest(config) : config \in Configs }
ConfigReps == { CHOOSE config \in Configs : ConfigDigest(config) = d : d \in ConfigDigests }
BuildArgs == IF instance THEN ConfigReps ELSE Configs

\* one caller: each ModelManager(config) or get_model call returns or raises
\* before the next one starts
NextRegistrySeq ==
    \/ Finished("t1") /\ \E config \in BuildArgs : Build(config)
    \/ GetModelStep("t1")

SpecRegistry == InitBuilt /\ [][NextRegistry]_vars

SpecRegistrySeq == InitRegistry /\ [][NextRegistrySeq]_vars

SpecMemory == InitMemory /\ [][NextMemory]_vars

\* one llm dict, and one construction of a factory from it
InitFactory ==
    /\ instance = FALSE
    /\ models = EmptyModels
    /\ build_result = "none"
    /\ build_config = [fresh |-> FALSE, digest |-> NoDigest]
    /\ pc = [t \in Threads |-> "idle"]
    /\ req = [t \in Threads |-> [llm |-> NoKey, embeddings |-> NoKey]]
    /\ model = [t \in Threads |-> [llm |-> None, embeddings |-> None]]
    /\ tmp = [t \in Threads |-> None]
    /\ outcome = [t \in Threads |-> "none"]
    /\ built = [t \in Threads |-> FALSE]
    /\ create_llm_calls = [n \in Names |-> 0]
    /\ create_embeddings_calls = [n \in Names |-> 0]
    /\ returned = [k \in Kinds |-> [n \in Names |-> {}]]
    /\ nreturned = [k \in Kinds |-> [n \in Names |-> 0]]
    /\ create_raised = [k \in Kinds |-> [n \in Names |-> FALSE]]
    /\ calls = 0
    /\ fails = 0
    /\ MemoryStart([x \in Sessions |-> <<>>])
    /\ CacheStart(1, 1)
    /\ \E llm_config \in LlmConfigs : FactoryStart(llm_config)

SpecFactory == InitFactory /\ [][NextFactory]_vars

\* an empty cache with caller-supplied parameters
InitCache ==
    /\ instance = FALSE
    /\ models = EmptyModels
    /\ build_result = "none"
    /\ build_config = [fresh |-> FALSE, digest |-> NoDigest]
    /\ pc = [t \in Threads |-> "idle"]
    /\ req = [t \in Threads |-> [llm |-> NoKey, embeddings |-> NoKey]]
    /\ model = [t \in Threads |-> [llm |-> None, embeddings |-> None]]
    /\ tmp = [t \in Threads |-> None]
    /\ outcome = [t \in Threads |-> "none"]
    /\ built = [t \in Threads |-> FALSE]
    /\ create_llm_calls = [n \in Names |-> 0]
    /\ create_embeddings_calls = [n \in Names |-> 0]
    /\ returned = [k \in Kinds |-> [n \in Names |-> {}]]
    /\ nreturned = [k \in Kinds |-> [n \in Names |-> 0]]
    /\ create_raised = [k \in Kinds |-> [n \in Names |-> FALSE]]
    /\ calls = 0
    /\ fails = 0
    /\ MemoryStart([x \in Sessions |-> <<>>])
    /\ FactoryStart(Desc("a", CONFIG_LLAMACPP, "m", NoKey))
    /\ \E p \in CacheParams : CacheStart(p.ttl, p.max_entries)

SpecCache == InitCache /\ [][NextCache]_vars

\* ------------------------------------------------------------------ claims
CreateCalls(k) == IF k = "llm" THEN create_llm_calls ELSE create_embeddings_calls

\* C1: for every name, under every interleaving of concurrent get_model
\* calls, create_llm is invoked at most once and create_embeddings is invoked
\* at most once (stated while no create operation has raised, so that a
\* retry after a failed construction is not what refutes it).
C1_CreateAtMostOnce ==
    fails = 0 => \A k \in Kinds, n \in Names : CreateCalls(k)[n] <= 1

\* C2: with one call at a time, all get_model calls that return a name's
\* handle return the same handle, and, as long as no invocation of its create
\* operation raised, that operation has been invoked exactly once.
C2_SameHandleCreatedOnce ==
    \A k \in Kinds, n \in Names :
        nreturned[k][n] >= 1 =>
            /\ Cardinality(returned[k][n]) = 1
            /\ None \notin returned[k][n]
            /\ ~create_raised[k][n] => CreateCalls(k)[n] = 1

\* two calls for one name have returned, and its create operation never raised
C2_Witness ==
    \E k \in Kinds, n \in Names : nreturned[k][n] >= 2 /\ ~create_raised[k][n]

\* a call that named something the registry does not hold
NamedUnregistered(t) ==
    \E k \in Kinds : req[t][k] # NoKey /\ req[t][k] \notin DOMAIN models

\* C3: a get_model call that names an unregistered backend fails with a
\* configuration error and has invoked no create operation.
C3_NoPartialConstruction ==
    \A t \in Threads :
        (pc[t] = "done" /\ NamedUnregistered(t)) =>
            outcome[t] = "ValueError" /\ ~built[t]

BadConfig(d) == d.absent \/ d.lacks \/ d.dup

\* what a build owes the configuration it was given
BuildValidated ==
    IF BadConfig(build_config.digest)
    THEN build_result = "ValueError"
    ELSE build_result = "ok" /\ instance /\ DOMAIN models = build_config.digest.names

\* C4 as stated: every ModelManager(config) fails when the llms list is
\* absent, an llm lacks a name or two share one, and otherwise succeeds and
\* registers exactly the listed names.
C4_EveryBuildValidates == build_result # "none" => BuildValidated

\* C4 as amended: the same, for a ModelManager(config) made while no
\* instance exists.
C4_FirstBuildValidates ==
    (build_result # "none" /\ build_config.fresh) =>
        /\ BuildValidated
        /\ build_result = "ValueError" => ~instance

\* a build with no instance yet was refused for a duplicated name
C4_Witness ==
    /\ build_config.fresh
    /\ build_config.digest.dup
    /\ ~build_config.digest.lacks
    /\ build_result = "ValueError"

\* C5: for every session, all __get_session_memory calls since its last
\* clear, sequential or concurrent, return the same memory object, and, as
\* long as no construction of its persisted history raised, that history was
\* constructed exactly once across those calls.
C5_OneMemoryPerSession ==
    \A x \in Sessions :
        got[x] # {} =>
            /\ Cardinality(got[x]) = 1
            /\ Cached(x) /\ got[x] = {session_memories[x]}
            /\ ~ctor_raised[x] => ctor_calls[x] = 1

\* two threads hold the memory object of one session at the same time
C5_Witness ==
    \E t, u \in Threads :
        /\ t # u
        /\ mpc[t] \in {"invoke", "save"} /\ mpc[u] \in {"invoke", "save"}
        /\ op[t].session = op[u].session
        /\ memory[t] = memory[u]
        /\ ~ctor_raised[op[t].session]

\* thread t takes the step that leaves position p
Leaves(t, p) == mpc[t] = p /\ mpc'[t] # p

\* C6: when __get_session_memory(s) is the first lookup of s after a
\* clear(s), the history seen through the object it yields is empty.
C6_EmptyAfterClear ==
    [][\A t \in Threads :
          (Leaves(t, "gsm_cs") /\ mpc'[t] = "invoke" /\ cleared[op[t].session])
              => history[memory'[t].session] = <<>>]_vars

\* C7: the step that completes an integrate(s, query, context) appends exactly
\* the turn (query, answer of the model) to the history of s, changes no other
\* session's history, and returns that answer; no earlier step of the call
\* touches any history.
C7_IntegrateAppendsOneTurn ==
    [][\A t \in Threads :
          /\ (Leaves(t, "save") /\ result'[t] = "ok") =>
                /\ integrated_context[t] \in Responses
                /\ ret'[t] = integrated_context[t]
                /\ history' = [history EXCEPT ![op[t].session] =
                                  Append(@, Turn(op[t].query, ret'[t]))]
          /\ (Leaves(t, "gsm_wait") \/ Leaves(t, "gsm_cs") \/ Leaves(t, "invoke"))
                => history' = history]_vars

\* an integrate returned, with its turn the last of its session's history
C7_Witness ==
    \E t \in Threads :
        /\ mpc[t] = "done" /\ op[t].name = "integrate" /\ result[t] = "ok"
        /\ history[op[t].session] # <<>>
        /\ history[op[t].session][Len(history[op[t].session])] = Turn(op[t].query, ret[t])

Active(x) == x \in DOMAIN session_memories

\* C8: a session's entry appears only by a __get_session_memory of that
\* session, which leaves it active; it disappears only by a clear of that
\* session, which leaves it absent; while it stays, it is the same object.
C8_SessionLifecycle ==
    [][\A x \in Sessions :
          /\ (~Active(x) /\ Active(x)') =>
                \E t \in Threads : Leaves(t, "gsm_cs") /\ op[t].session = x
          /\ (Active(x) /\ ~Active(x)') =>
                \E t \in Threads : Leaves(t, "clear_cs") /\ op[t].session = x
          /\ (Active(x) /\ Active(x)') => session_memories'[x] = session_memories[x]
          /\ \A t \in Threads :
                /\ (Leaves(t, "gsm_cs") /\ op[t].session = x /\ mpc'[t] = "invoke")
                      => Active(x)'
                /\ (Leaves(t, "clear_cs") /\ op[t].session = x /\ result'[t] = "ok")
                      => ~Active(x)'
                /\ (Leaves(t, "invoke") \/ Leaves(t, "save")) =>
                      (Active(x)' <=> Active(x))]_vars

\* one session was cleared and is absent while the other is still active
C8_Witness ==
    \E x, y \in Sessions :
        /\ x # y
        /\ cleared[x] /\ ~Active(x) /\ objs[x] > 0
        /\ Active(y)

InCriticalSection(t) == mpc[t] \in {"gsm_cs", "clear_cs"}

\* C9: the mutex is held only by a thread inside the get-or-create or the
\* clear critical section, never by one that is invoking the model or saving
\* the turn; so while a thread is there and no other thread is inside a
\* critical section, the mutex is free for any caller.
C9_LockNotHeldDuringInvoke ==
    /\ \A t \in Threads : mutex = t => InCriticalSection(t)
    /\ \A t \in Threads :
          (mpc[t] \in {"invoke", "save"} /\ \A u \in Threads : ~InCriticalSection(u))
              => mutex = Free

\* one thread is invoking the model while another is inside a critical
\* section for a different session
C9_Witness ==
    \E t, u \in Threads :
        /\ mpc[t] = "invoke"
        /\ InCriticalSection(u) /\ mutex = u
        /\ op[t].session # op[u].session

\* C10: a clear(s) does not fail for want of the session; one that succeeds
\* leaves s without persisted history and without in-process memory; and one
\* that finds s already so changes neither the histories nor the memories.
C10_ClearIdempotent ==
    [][\A t \in Threads :
          Leaves(t, "clear_cs") =>
              /\ result'[t] \in {"ok", "ProviderError"}
              /\ result'[t] = "ok" =>
                    /\ history'[op[t].session] = <<>>
                    /\ ~Active(op[t].session)'
              /\ (history[op[t].session] = <<>> /\ ~Active(op[t].session)) =>
                    /\ history' = history
                    /\ session_memories' = session_memories]_vars

\* a clear succeeded on a session with no persisted history and no memory
C10_Witness ==
    \E t \in Threads :
        /\ mpc[t] = "done" /\ op[t].name = "clear" /\ result[t] = "ok"
        /\ ~before[t].stored /\ ~before[t].cached

\* the key is absent, or its value is falsy
Missing(v) == v \in {NoKey, Empty}

\* C11: every factory variant validates at construction: no factory object
\* is constructed from an llm dict whose model is missing, whichever variant
\* its type selects, nor from an openai llm dict whose api key is missing.
C11_FactoryValidates ==
    fresult = "ok" =>
        /\ ~Missing(fconfig.model)
        /\ (fconfig.type = CONFIG_OPENAI => ~Missing(fconfig.api_key))

\* C12: ModelManager(config) builds no handle.  Right after a successful
\* first build every entry's llm and embeddings handle is unset and no create
\* operation has been invoked; whenever an entry holds a handle, it is one
\* that a create operation invoked by get_model returned.
C12_BuildCreatesNoHandle ==
    /\ (build_result = "ok" /\ build_config.fresh) =>
          /\ \A n \in DOMAIN models :
                models[n].llm_inst = None /\ models[n].embeddings_inst = None
          /\ \A n \in Names : create_llm_calls[n] = 0 /\ create_embeddings_calls[n] = 0
    /\ \A n \in DOMAIN models :
          /\ models[n].llm_inst # None =>
                models[n].llm_inst.no \in 1..create_llm_calls[n]
          /\ models[n].embeddings_inst # None =>
                models[n].embeddings_inst.no \in 1..create_embeddings_calls[n]

\* a first build that registered two names
C12_Witness ==
    /\ build_result = "ok"
    /\ build_config.fresh
    /\ DOMAIN models = Names

\* the field of an entry that holds the handle of a kind
Inst(k) == IF k = "llm" THEN "llm_inst" ELSE "embeddings_inst"

\* C13: neither key of a get_model request is mandatory.  While a call runs
\* and once it has ended, the field of its bundle for a kind the request does
\* not name is empty, no entry's handle of that kind changes and no create
\* operation of that kind is invoked; a call that returns holds, for each
\* kind it names, the handle stored in the named entry.
C13_OnlyRequestedKinds ==
    [][ \A t \in Threads : pc'[t] # "idle" =>
          \A k \in Kinds :
             /\ req'[t][k] = NoKey =>
                   /\ model'[t][k] = None
                   /\ DOMAIN models' = DOMAIN models
                   /\ \A n \in DOMAIN models : models'[n][Inst(k)] = models[n][Inst(k)]
                   /\ CreateCalls(k)' = CreateCalls(k)
             /\ (req'[t][k] # NoKey /\ pc'[t] = "done" /\ outcome'[t] = "ok") =>
                   /\ model'[t][k] # None
                   /\ model'[t][k] = models'[req'[t][k]][Inst(k)] ]_vars

\* a call that named only a language model has returned it, while some
\* entry holds an embeddings handle from an earlier call
C13_Witness ==
    \E t \in Threads :
       /\ pc[t] = "done" /\ outcome[t] = "ok"
       /\ req[t].llm # NoKey /\ req[t].embeddings = NoKey
       /\ model[t].llm # None
       /\ \E n \in DOMAIN models : models[n].embeddings_inst # None

\* what a build was given has the llms key, every llm dict a name, no name twice
ValidDigest(d) == ~d.absent /\ ~d.lacks /\ ~d.dup

\* C17: the registry is a process-wide singleton.  Once an instance exists,
\* ModelManager(config) returns it whatever config is, with the registered
\* names and the constructed handles unchanged; a build that fails keeps no
\* instance, and a build of a valid configuration with no instance succeeds.
\* (A step that moves no thread of get_model is a ModelManager(config).)
C17_Singleton ==
    [][ pc' = pc =>
          /\ instance =>
                /\ instance'
                /\ build_result' = "ok"
                /\ ~build_config'.fresh
                /\ models' = models
          /\ ~instance =>
                /\ instance' = (build_result' = "ok")
                /\ instance' = ValidDigest(build_config'.digest)
                /\ ~instance' => models' = EmptyModels ]_vars

\* a later build, given a configuration the first build would have
\* rejected, has returned while an entry holds a constructed handle
C17_Witness ==
    /\ instance
    /\ build_result = "ok"
    /\ ~build_config.fresh
    /\ build_config.digest.absent \/ build_config.digest.lacks \/ build_config.digest.dup
    /\ \E n \in DOMAIN models : models[n].llm_inst # None

\* the ways the construction of a handle fails
CreateErrors == {"ValueError", "KeyError", "ProviderError"}

\* thread t is at the construction of the handle of kind k
AtCreate(t, k) == pc[t] = (IF k = "llm" THEN "llm_create" ELSE "emb_create")
AtLookup(t, k) == pc[t] = (IF k = "llm" THEN "llm" ELSE "emb")

InvokeFails(t) == invoked'[t] = invoked[t] + 1 /\ mfails' = mfails + 1

\* C16: when the language-model invocation inside integrate fails, the call
\* ends with that failure after exactly one invocation, returns nothing,
\* appends no turn to any history and leaves session_memories as it was: the
\* session's object, unless a clear removed it meanwhile, is still in the map.
C16_FailedInvokePropagates ==
    [][ \A t \in Threads : InvokeFails(t) =>
          /\ mpc'[t] = "done"
          /\ result'[t] = "ProviderError"
          /\ invoked'[t] = 1
          /\ ret'[t] = "None"
          /\ history' = history
          /\ session_memories' = session_memories
          /\ ~cleared[op[t].session] => op[t].session \in DOMAIN session_memories' ]_vars

\* an integrate whose invocation raised has ended: its session has a stored
\* turn from an earlier integrate and its object is still in the map
C16_Witness ==
    \E t \in Threads :
       /\ mpc[t] = "done" /\ op[t].name = "integrate"
       /\ result[t] = "ProviderError" /\ invoked[t] = 1
       /\ op[t].session \in DOMAIN session_memories
       /\ history[op[t].session] # <<>>

\* C19: the critical sections of __get_session_memory and of clear exclude
\* one another whatever the sessions: at most one thread is between entering
\* and leaving `with self.mutex`, and it holds the mutex; a call that has
\* ended, by returning or because the persisted history raised inside the
\* critical section, no longer holds it.
C19_MutualExclusion ==
    /\ \A t, u \in Threads : (InCriticalSection(t) /\ InCriticalSection(u)) => t = u
    /\ \A t \in Threads : InCriticalSection(t) => mutex = t
    /\ \A t \in Threads : ~InCriticalSection(t) => mutex # t

\* the persisted history raised inside one thread's critical section, and
\* another thread, working on another session, is now inside its own: the
\* mutex was released by the exception and taken again
C19_Witness ==
    \E t, u \in Threads :
        /\ t # u
        /\ mpc[t] = "done" /\ result[t] = "ProviderError" /\ invoked[t] = 0
        /\ InCriticalSection(u) /\ mutex = u
        /\ op[t].session # op[u].session

\* the age test of the claim, on the state before the step
Fresh(key) == \E e \in entries : e.key = key /\ now - e.created_at < ttl

\* C14: a get_or_compute for a key whose entry was stored less than ttl ago
\* returns the stored value without invoking compute; for a key whose entry is
\* ttl old or older, or that has no entry, it invokes compute, and the new
\* result replaces the old one and is what the caller gets.  An expired entry
\* is never returned.
C14_TtlBoundsReturns ==
    [][ \A t \in Threads :
          /\ (cpc[t] = "lookup" /\ cpc'[t] # "lookup") =>
                IF Fresh(ckey[t])
                THEN /\ cpc'[t] = "done"
                     /\ computes' = computes
                     /\ \E e \in entries :
                           /\ e.key = ckey[t] /\ now - e.created_at < ttl
                           /\ cret'[t] = e.value
                ELSE /\ cpc'[t] = "compute"
                     /\ cret'[t] = NoValue
          /\ (cpc[t] = "compute" /\ cpc'[t] # "compute") =>
                computes' = computes + 1 /\ cval'[t] \notin { e.value : e \in entries }
          /\ (cpc[t] = "store" /\ cpc'[t] # "store") =>
                /\ cret'[t] = cval[t]
                /\ \A e \in entries' : e.key = ckey[t] =>
                      e.value = cval[t] /\ e.created_at = now ]_vars

\* a call has recomputed the value of a key whose expired entry was still in
\* the map, and its result has replaced it
C14_Witness ==
    \E t \in Threads, e \in entries :
       /\ \A u \in Threads \ {t} : cpc[u] = "idle"
       /\ cpc[t] = "done" /\ e.key = ckey[t]
       /\ gets = 2 /\ computes = 2
       /\ cret[t] = 2 /\ e.value = 2
       /\ e.created_at >= ttl
       /\ max_entries = 2 /\ Cardinality(entries) = 1

\* the entries a step took out of the map, other than the one its key held
Removed(key) == { e \in entries \ entries' : e.key # key }

\* C15: after every step of get_or_compute, under any interleaving, no key
\* has two stored values and the map holds at most max_entries entries; the
\* entry a store inserts is in the map afterwards, and an entry the store
\* evicts was used no later than every entry of another key that stays.
C15_BoundedOnePerKey ==
    [][ /\ Cardinality(entries') <= max_entries
        /\ \A e, f \in entries' : e.key = f.key => e = f
        /\ \A t \in Threads : (cpc[t] = "store" /\ cpc'[t] # "store") =>
              /\ \E e \in entries' : e.key = ckey[t] /\ e.value = cval[t]
              /\ Cardinality(Removed(ckey[t])) <= 1
              /\ \A r \in Removed(ckey[t]) :
                    /\ Cardinality({ f \in entries : f.key # ckey[t] }) = max_entries
                    /\ \A f \in entries : f.used >= r.used ]_vars

\* one thread, with no time passing, has stored three values in a cache of
\* two entries: the second was evicted and the first, read again meanwhile,
\* was kept
C15_Witness ==
    \E t \in Threads :
       /\ \A u \in Threads \ {t} : cpc[u] = "idle"
       /\ cpc[t] = "done"
       /\ now = 0 /\ max_entries = 2
       /\ gets = 4 /\ computes = 3
       /\ { e.value : e \in entries } = {1, 3}
====
